---------------------------- MODULE Spec2Model ----------------------------
(***************************************************************************)
(* The CLM relay server of hume-voice-demo (src/clm_server/server.py):     *)
(* the message normalizer, the prompt enrichment, the provider routing     *)
(* and hot-swap, the shared PipelineState, the InteractionRecord log, the  *)
(* continuous (WebSocket) channel and the one-shot /chat call.             *)
(*                                                                         *)
(* Texts are sequences of tokens; the token " " is whitespace, every other *)
(* token is a run of non-whitespace characters.  A JSON value is a tagged  *)
(* record [t, v]: "str" (a text), "num" (an integer, scores in             *)
(* thousandths), "null", "list" (a sequence of values), "map" (a function  *)
(* from key strings to values).                                            *)
(***************************************************************************)
EXTENDS Integers, Sequences, FiniteSets, TLC

VARIABLES
    env,                  \* the process environment, fixed at start-up
    LLM_PROVIDER,         \* global LLM_PROVIDER
    claude_client,        \* global claude_client: TRUE iff not None
    openai_client,        \* global openai_client: TRUE iff not None
    pipeline_state,       \* global pipeline_state (PipelineState)
    interaction_history,  \* global interaction_history
    now,                  \* the wall clock read by datetime.now()
    conn,                 \* per WebSocket connection: handler position and locals
    chat,                 \* per /chat request handler: position and locals
    invoked,              \* the latest invocation of _call_llm, by any handler
    switched,             \* the provider of the latest successful switch
    http,                 \* the HTTP response produced by the step just taken
    norm,                 \* the normalizer applied to one payload on its own
    ui,                   \* the frontend's st.session_state and script position
    voice                 \* the live-voice widget: its globals and its sockets

vars == <<env, LLM_PROVIDER, claude_client, openai_client, pipeline_state,
          interaction_history, now, conn, chat, invoked, switched, http,
          norm, ui, voice>>

-----------------------------------------------------------------------------
(* Bounds of the model *)

MaxTurns == 2        \* turns (with a non-empty utterance) started in one run
MaxMsgs == 2         \* entries of a generated "messages" list
MaxSockets == 3      \* WebSockets the live-voice widget creates in one run
MaxPending == 2      \* startSession calls waiting for the microphone at once
MaxQueue == 1        \* audio buffers waiting behind the one being played

Conns == {"c1"}           \* WebSocket connections that may be open at once
Handlers == {"h1"}        \* /chat requests that may be in progress at once

-----------------------------------------------------------------------------
(* JSON-like values *)

Str(s) == [t |-> "str", v |-> s]
Num(n) == [t |-> "num", v |-> n]
Null == [t |-> "null", v |-> 0]
List(l) == [t |-> "list", v |-> l]
Map(m) == [t |-> "map", v |-> m]
EmptyMap == Map(<<>>)

\* Python's `k in x`: a key test on a mapping; on a list or a string an
\* element / substring test, always false for the values of this model (no
\* text holds a key name); on a number or None a TypeError.
In(x, k) == x.t = "map" /\ k \in DOMAIN x.v
InRaises(x) == x.t \in {"num", "null"}

\* dict.get(k, default) on a mapping.
Get(x, k, default) == IF k \in DOMAIN x.v THEN x.v[k] ELSE default

\* Iterating x with `for`: a list yields its elements; an empty string or
\* mapping yields nothing; a non-empty string or mapping yields strings (its
\* characters, its keys); a number or None raises TypeError.
IterKind(x) ==
    CASE x.t = "list" -> "items"
      [] x.t = "str" -> (IF Len(x.v) = 0 THEN "nothing" ELSE "strings")
      [] x.t = "map" -> (IF DOMAIN x.v = {} THEN "nothing" ELSE "strings")
      [] OTHER -> "raise"

\* The outcome of a function call: a returned value, a raised exception, or
\* (inside _extract_transcript) falling through to the next rule.
Ret(x) == [kind |-> "ret", val |-> x]
Raise == [kind |-> "raise", val |-> <<>>]
Fall == [kind |-> "fall", val |-> <<>>]

-----------------------------------------------------------------------------
(* str.strip() *)

RECURSIVE LStrip(_)
LStrip(s) == IF s # <<>> /\ Head(s) = " " THEN LStrip(Tail(s)) ELSE s

RECURSIVE RStrip(_)
RStrip(s) ==
    IF s # <<>> /\ s[Len(s)] = " " THEN RStrip(SubSeq(s, 1, Len(s) - 1)) ELSE s

Strip(s) == RStrip(LStrip(s))

-----------------------------------------------------------------------------
(* _extract_transcript *)

\* The body of the loop over reversed(message["messages"]), from entry i down.
RECURSIVE ScanUser(_, _)
ScanUser(msgs, i) ==
    IF i = 0 THEN Fall
    ELSE LET msg == msgs[i] IN
         IF msg.t # "map" THEN Raise                    \* msg.get: AttributeError
         ELSE LET role == Get(msg, "role", Null) IN
              IF role.t = "str" /\ role.v = <<"user">>
              THEN LET content == Get(msg, "content", Str(<<>>)) IN
                   IF content.t = "str" THEN Ret(Strip(content.v))
                   ELSE IF content.t = "map"
                        THEN LET text == Get(content, "text", Str(<<>>)) IN
                             IF text.t = "str" THEN Ret(Strip(text.v))
                             ELSE Raise                 \* .strip: AttributeError
                        ELSE ScanUser(msgs, i - 1)
              ELSE ScanUser(msgs, i - 1)

MessagesRule(message) ==
    IF ~In(message, "messages") THEN Fall
    ELSE LET m == message.v["messages"] IN
         CASE IterKind(m) = "items" -> ScanUser(m.v, Len(m.v))
           [] IterKind(m) = "nothing" -> Fall
           [] OTHER -> Raise

\* message[key].strip()
StripField(message, key) ==
    LET x == message.v[key] IN
    IF x.t = "str" THEN Ret(Strip(x.v)) ELSE Raise

ExtractTranscript(message) ==
    IF InRaises(message) THEN Raise
    ELSE LET r == MessagesRule(message) IN
         IF r.kind # "fall" THEN r
         ELSE IF In(message, "transcript") THEN StripField(message, "transcript")
         ELSE IF In(message, "text") THEN StripField(message, "text")
         ELSE Ret(<<>>)

-----------------------------------------------------------------------------
(* _extract_emotions *)

\* {"name": emotion.get("name", "unknown"), "score": emotion.get("score", 0.0)}
EmotionEntry(emotion) ==
    Map([name |-> Get(emotion, "name", Str(<<"unknown">>)),
         score |-> Get(emotion, "score", Num(0))])

\* for emotion in <emotions>: emotions.append({...})
RECURSIVE FromEmotions(_, _)
FromEmotions(es, j) ==
    IF j > Len(es) THEN Ret(<<>>)
    ELSE IF es[j].t # "map" THEN Raise               \* emotion.get: AttributeError
    ELSE LET rest == FromEmotions(es, j + 1) IN
         IF rest.kind = "raise" THEN Raise
         ELSE Ret(<<EmotionEntry(es[j])>> \o rest.val)

\* for pred in prosody["predictions"]: for emotion in pred.get("emotions", [])
RECURSIVE FromPredictions(_, _)
FromPredictions(ps, i) ==
    IF i > Len(ps) THEN Ret(<<>>)
    ELSE IF ps[i].t # "map" THEN Raise               \* pred.get: AttributeError
    ELSE LET es == Get(ps[i], "emotions", List(<<>>))
             here == CASE IterKind(es) = "items" -> FromEmotions(es.v, 1)
                       [] IterKind(es) = "nothing" -> Ret(<<>>)
                       [] OTHER -> Raise
         IN  IF here.kind = "raise" THEN Raise
             ELSE LET rest == FromPredictions(ps, i + 1) IN
                  IF rest.kind = "raise" THEN Raise
                  ELSE Ret(here.val \o rest.val)

\* holder["models"].get("prosody", {}) and its predictions; holder has "models".
FromModels(holder) ==
    LET models == holder.v["models"] IN
    IF models.t # "map" THEN Raise                   \* models.get: AttributeError
    ELSE LET prosody == Get(models, "prosody", EmptyMap) IN
         IF InRaises(prosody) THEN Raise
         ELSE IF ~In(prosody, "predictions") THEN Ret(<<>>)
         ELSE LET ps == prosody.v["predictions"] IN
              CASE IterKind(ps) = "items" -> FromPredictions(ps.v, 1)
                [] IterKind(ps) = "nothing" -> Ret(<<>>)
                [] OTHER -> Raise

\* for msg in message["messages"]: if "models" in msg: ...
RECURSIVE FromMessages(_, _)
FromMessages(msgs, i) ==
    IF i > Len(msgs) THEN Ret(<<>>)
    ELSE IF InRaises(msgs[i]) THEN Raise             \* "models" in msg: TypeError
    ELSE LET here == IF In(msgs[i], "models") THEN FromModels(msgs[i])
                     ELSE Ret(<<>>)
         IN  IF here.kind = "raise" THEN Raise
             ELSE LET rest == FromMessages(msgs, i + 1) IN
                  IF rest.kind = "raise" THEN Raise
                  ELSE Ret(here.val \o rest.val)

\* The order in which a mapping of emotion_features lists its keys.
FeatureOrder == <<"joy", "anger", "calm", "fear", "awe", "pride">>

\* for name, score in message["emotion_features"].items():
\*     emotions.append({"name": name, "score": float(score)})
RECURSIVE FromFeatures(_, _)
FromFeatures(f, k) ==
    IF k > Len(FeatureOrder) THEN Ret(<<>>)
    ELSE LET name == FeatureOrder[k] IN
         IF name \notin DOMAIN f THEN FromFeatures(f, k + 1)
         ELSE IF f[name].t # "num" THEN Raise        \* float(score)
         ELSE LET rest == FromFeatures(f, k + 1) IN
              IF rest.kind = "raise" THEN Raise
              ELSE Ret(<<Map([name |-> Str(<<name>>), score |-> f[name]])>>
                       \o rest.val)

ExtractEmotions(message) ==
    IF InRaises(message) THEN Raise
    ELSE
    LET top == IF In(message, "models") THEN FromModels(message) ELSE Ret(<<>>)
    IN
    IF top.kind = "raise" THEN Raise
    ELSE
    LET inner ==
            IF ~In(message, "messages") THEN Ret(<<>>)
            ELSE LET m == message.v["messages"] IN
                 CASE IterKind(m) = "items" -> FromMessages(m.v, 1)
                   [] IterKind(m) = "nothing" -> Ret(<<>>)
                   [] IterKind(m) = "strings" -> Ret(<<>>)
                   [] OTHER -> Raise
    IN
    IF inner.kind = "raise" THEN Raise
    ELSE
    LET feat ==
            IF ~In(message, "emotion_features") THEN Ret(<<>>)
            ELSE LET f == message.v["emotion_features"] IN
                 IF f.t # "map" THEN Raise           \* .items: AttributeError
                 ELSE FromFeatures(f.v, 1)
    IN
    IF feat.kind = "raise" THEN Raise
    ELSE Ret(top.val \o inner.val \o feat.val)

-----------------------------------------------------------------------------
(* Prompt enrichment: the emotion context appended to the transcript *)

TopK == 5

Digit(d) == <<"0", "1", "2", "3", "4", "5", "6", "7", "8", "9">>[d + 1]

RECURSIVE Digits(_)
Digits(n) == IF n < 10 THEN <<Digit(n)>> ELSE Digits(n \div 10) \o <<Digit(n % 10)>>

\* f"{score:.2f}" of a score given in thousandths (no score of the model lies
\* half-way between two hundredths).
Format2f(score) ==
    LET h == (score + 5) \div 10 IN
    Digits(h \div 100) \o <<".", Digit((h \div 10) % 10), Digit(h % 10)>>

\* f"{e['name']}"
FormatName(name) ==
    CASE name.t = "str" -> name.v
      [] name.t = "null" -> <<"None">>
      [] OTHER -> <<"<repr>">>

\* e.get("score", 0), the sort key
ScoreKey(e) == Get(e, "score", Num(0))

\* sorted(..., key=score, reverse=True): stable, equal keys keep their order.
RECURSIVE InsertDesc(_, _)
InsertDesc(sorted, e) ==
    IF sorted = <<>> THEN <<e>>
    ELSE IF ScoreKey(Head(sorted)).v >= ScoreKey(e).v
         THEN <<Head(sorted)>> \o InsertDesc(Tail(sorted), e)
         ELSE <<e>> \o sorted

RECURSIVE SortDesc(_)
SortDesc(es) ==
    IF es = <<>> THEN <<>>
    ELSE InsertDesc(SortDesc(SubSeq(es, 1, Len(es) - 1)), es[Len(es)])

Take(s, k) == SubSeq(s, 1, IF Len(s) < k THEN Len(s) ELSE k)

\* ", ".join(f"{e['name']}: {e['score']:.2f}" for e in top)
RECURSIVE JoinEmotions(_)
JoinEmotions(top) ==
    IF top = <<>> THEN <<>>
    ELSE FormatName(top[1].v["name"]) \o <<": ">> \o Format2f(top[1].v["score"].v)
         \o (IF Len(top) > 1 THEN <<", ">> \o JoinEmotions(Tail(top)) ELSE <<>>)

\* The emotion context built in clm_websocket.  A score that is no number
\* makes the sort (comparing it) or the format (":.2f") raise; a missing name
\* or score among the top entries is a KeyError.
emotion_context_ws(emotions) ==
    IF emotions = <<>> THEN Ret(<<>>)
    ELSE IF \E i \in 1..Len(emotions) : ScoreKey(emotions[i]).t # "num" THEN Raise
    ELSE LET top == Take(SortDesc(emotions), TopK) IN
         IF \E i \in 1..Len(top) : ~In(top[i], "name") \/ ~In(top[i], "score")
         THEN Raise
         ELSE Ret(<<"\n[Voice emotion analysis: ">> \o JoinEmotions(top) \o <<"]">>)

\* direct_chat keeping only as many entries as the log line of clm_websocket.
TopLogged == 3

emotion_context_chat_logged(emotions) ==
    IF emotions = <<>> THEN Ret(<<>>)
    ELSE IF \E i \in 1..Len(emotions) : ScoreKey(emotions[i]).t # "num" THEN Raise
    ELSE LET top == Take(SortDesc(emotions), TopLogged) IN
         IF \E i \in 1..Len(top) : ~In(top[i], "name") \/ ~In(top[i], "score")
         THEN Raise
         ELSE Ret(<<"\n[Voice emotion analysis: ">> \o JoinEmotions(top) \o <<"]">>)

\* The emotion context built in direct_chat: the same statements again.
emotion_context_chat(emotions) ==
    IF emotions = <<>> THEN Ret(<<>>)
    ELSE IF \E i \in 1..Len(emotions) : ScoreKey(emotions[i]).t # "num" THEN Raise
    ELSE LET top == Take(SortDesc(emotions), TopK) IN
         IF \E i \in 1..Len(top) : ~In(top[i], "name") \/ ~In(top[i], "score")
         THEN Raise
         ELSE Ret(<<"\n[Voice emotion analysis: ">> \o JoinEmotions(top) \o <<"]">>)

-----------------------------------------------------------------------------
(* PipelineState *)

\* PipelineState.reset: the values the fields take (latency_ms None is <<>>).
PipelineReset(clock) ==
    [stage |-> "idle", transcript |-> <<>>, response |-> <<>>,
     emotions |-> <<>>, timestamp |-> clock, latency_ms |-> <<>>]

\* PipelineState.to_dict: a copy of the fields.
\* The snapshot taken of the state as it was before the turn wrote to it.
to_dict_stale(ps) ==
    [stage |-> pipeline_state.stage, transcript |-> pipeline_state.transcript,
     response |-> pipeline_state.response, emotions |-> pipeline_state.emotions,
     timestamp |-> pipeline_state.timestamp,
     latency_ms |-> pipeline_state.latency_ms]

to_dict(ps) ==
    [stage |-> ps.stage, transcript |-> ps.transcript, response |-> ps.response,
     emotions |-> ps.emotions, timestamp |-> ps.timestamp,
     latency_ms |-> ps.latency_ms]

\* The writes of a turn of clm_websocket to pipeline_state, in program order:
\* stage = "transcribed" with transcript, emotions and timestamp ...
Transcribed(ps, transcript, emotions, clock) ==
    [ps EXCEPT !.stage = "transcribed", !.transcript = transcript,
               !.emotions = emotions, !.timestamp = clock]

\* A turn that never announces the provider call.
ThinkingSkipped(ps) == ps

\* ... stage = "thinking" before the provider is called ...
Thinking(ps) == [ps EXCEPT !.stage = "thinking"]

\* ... latency_ms, then stage = "speaking" and response after it.
Speaking(ps, latency, response_text) ==
    [ps EXCEPT !.latency_ms = <<latency>>, !.stage = "speaking",
               !.response = response_text]

-----------------------------------------------------------------------------
(* The provider adapter *)

NotConfiguredClaude == <<"Claude", " ", "API", " ", "not", " ", "configured.">>
NotConfiguredOpenAI == <<"OpenAI", " ", "API", " ", "not", " ", "configured.">>
TroubleThinking == <<"I'm", " ", "having", " ", "trouble", " ", "thinking">>
ReplyOf(provider) == <<"reply", " ", "of", " ", provider>>

\* What the upstream request does: it answers, the client library raises its
\* API error, or something else is raised (while calling or reading the result).
Outcomes == {"ok", "api_error", "other_error"}

\* _call_claude failing the turn when there is no client.
CallClaudeNoClientRaises(outcome) ==
    IF ~claude_client THEN Raise
    ELSE CASE outcome = "ok" -> Ret(ReplyOf("claude"))
           [] outcome = "api_error" -> Ret(TroubleThinking)
           [] OTHER -> Raise

\* _call_claude: only anthropic.APIError is caught.
CallClaude(outcome) ==
    IF ~claude_client THEN Ret(NotConfiguredClaude)
    ELSE CASE outcome = "ok" -> Ret(ReplyOf("claude"))
           [] outcome = "api_error" -> Ret(TroubleThinking)
           [] OTHER -> Raise

\* _call_openai: every Exception is caught.
CallOpenAI(outcome) ==
    IF ~openai_client THEN Ret(NotConfiguredOpenAI)
    ELSE CASE outcome = "ok" -> Ret(ReplyOf("openai"))
           [] OTHER -> Ret(TroubleThinking)

\* _call_llm: the routing on the global LLM_PROVIDER.
Routed == IF LLM_PROVIDER = "openai" THEN "openai" ELSE "claude"

CallLLM(outcome) ==
    IF LLM_PROVIDER = "openai" THEN CallOpenAI(outcome) ELSE CallClaude(outcome)

\* The record of one invocation of _call_llm: who called (and, on a
\* connection, for which of its messages), the selection read and the latest
\* successful switch before it, the backend it went to, whether that backend
\* had a client, the utterance and emotions of the turn, the turns passed and
\* the result.
Invocation(who, nth, stage, transcript, emotions, conversation, outcome) ==
    [by |-> who, nth |-> nth, stage |-> stage, selection |-> LLM_PROVIDER,
     after |-> switched,
     routed |-> Routed,
     requested |-> IF Routed = "openai" THEN openai_client ELSE claude_client,
     transcript |-> transcript, emotions |-> emotions,
     turns |-> conversation, result |-> CallLLM(outcome)]

NoInvocation ==
    [by |-> "none", nth |-> 0, stage |-> "none", selection |-> "none",
     after |-> "none",
     routed |-> "none", requested |-> FALSE, transcript |-> <<>>,
     emotions |-> <<>>, turns |-> <<>>, result |-> Raise]

\* round(elapsed_ms, 1): elapsed in hundredths of a millisecond, the result in
\* tenths.
Round1(elapsed) == (elapsed + 5) \div 10

Elapsed == {1234}

Turn(role, content) == [role |-> role, content |-> content]

NoHttp == [req |-> "none", by |-> "none", body |-> <<>>]

\* The reply not recorded in the conversation.
SkipAssistant(conversation, response_text) == conversation

\* conversation.append({"role": "assistant", "content": response_text})
AppendAssistant(conversation, response_text) ==
    Append(conversation, Turn("assistant", response_text))

-----------------------------------------------------------------------------
(* The inputs of the model *)

Emo(name, score) == Map([name |-> Str(<<name>>), score |-> Num(score)])

Prosody(emotions) ==
    Map([prosody |-> Map([predictions |-> List(<<Map([emotions |-> List(emotions)])>>)])])

\* The JSON texts received on the continuous channel.
PayloadTranscript == Map([transcript |-> Str(<<" ", "a", " ">>)])
PayloadMessages ==
    Map([messages |-> List(<<Map([role |-> Str(<<"user">>),
                                  content |-> Str(<<"b">>),
                                  models |-> Prosody(<<Emo("calm", 100),
                                                       Emo("joy", 904)>>)])>>),
         emotion_features |-> Map([joy |-> Num(396), anger |-> Num(396),
                                   calm |-> Num(52), fear |-> Num(904),
                                   awe |-> Num(711)])])
PayloadBlankText == Map([text |-> Str(<<" ">>)])
PayloadNoKeys == EmptyMap
PayloadList == List(<<>>)
PayloadNumTranscript == Map([transcript |-> Num(5)])
PayloadNumModels == Map([models |-> Num(5)])
PayloadTextScore ==
    Map([transcript |-> Str(<<"a">>),
         models |-> Prosody(<<Map([name |-> Str(<<"joy">>),
                                   score |-> Str(<<"high">>)])>>)])

WsPayloads ==
    {PayloadTranscript, PayloadMessages, PayloadBlankText, PayloadNoKeys,
     PayloadList, PayloadNumTranscript, PayloadNumModels, PayloadTextScore}

\* What receive_text() and json.loads() meet: the peer has gone, a text that
\* is no JSON, or a JSON value.
Disconnect == [kind |-> "disconnect", payload |-> Null]
Garbage == [kind |-> "garbage", payload |-> Null]
Json(p) == [kind |-> "json", payload |-> p]

WsFrames == {Disconnect, Garbage} \cup {Json(p) : p \in WsPayloads}

\* The bodies of /chat requests (ChatRequest: message: str, emotions: list[dict]).
RequestPlain == [message |-> <<"a">>, emotions |-> <<>>]
RequestEmpty == [message |-> <<>>, emotions |-> <<>>]
RequestEmotions ==
    [message |-> <<" ", "b">>,
     emotions |-> <<Emo("calm", 100), Emo("joy", 904), Emo("joy", 396),
                    Emo("anger", 396), Emo("calm", 52), Emo("fear", 904)>>]
RequestNoScore == [message |-> <<"a">>, emotions |-> <<Map([name |-> Str(<<"joy">>)])>>]

ChatRequests == {RequestPlain, RequestEmpty, RequestEmotions, RequestNoScore}

\* The provider names a /switch request may carry (already lower-cased), and
\* the environments the process may start in.
SwitchTargets == {"claude", "openai", "gemini"}

Environments ==
    [LLM_PROVIDER : {"claude", "openai", "gemini"},
     openai_package : BOOLEAN,
     ANTHROPIC_API_KEY : BOOLEAN,
     OPENAI_API_KEY : BOOLEAN]

\* The environments with everything installed and every credential set.
FullEnvironments ==
    [LLM_PROVIDER : {"claude", "openai"}, openai_package : {TRUE},
     ANTHROPIC_API_KEY : {TRUE}, OPENAI_API_KEY : {TRUE}]

-----------------------------------------------------------------------------
(* The frontend as the page is first loaded *)

\* st.session_state after the defaults are filled in, and the position of the
\* script: "idle" between runs, "posting" while POST /switch/{desired} is out.
SessionDefaults ==
    [active_provider |-> "claude", current_provider |-> "claude",
     desired |-> "claude", error |-> FALSE, pc |-> "idle"]

Sockets == 1..MaxSockets

\* The globals of the live-voice script, the WebSockets it has created (socks:
\* the readyState of each, "none" before it exists), the startSession calls
\* waiting in getUserMedia (pending), the waitForDrain timers running
\* (draining), and the sockets a click on the button has closed (stopped).
WidgetLoaded ==
    [state |-> "idle", micStream |-> FALSE, mediaRecorder |-> "null",
     ws |-> 0, audioQueue |-> 0, isPlaying |-> FALSE, error |-> FALSE,
     pending |-> 0, draining |-> FALSE, made |-> 0,
     socks |-> [s \in Sockets |-> "none"], stopped |-> {}]

FrontendInit ==
    /\ ui = SessionDefaults
    /\ voice = WidgetLoaded

-----------------------------------------------------------------------------
(* The state after start-up (module initialisation and lifespan) *)

NormIdle == [phase |-> "off", message |-> Null, transcript |-> Raise,
             emotions |-> Raise]

ClosedConn ==
    [pc |-> "closed", conversation |-> <<>>, response_text |-> <<>>,
     outbox |-> <<>>, turns |-> 0, stages |-> <<>>]

\* The locals of a /chat handler; routed (the backend its call went to) and
\* latency (the rounded latency of its own call) are kept for the properties.
IdleChat ==
    [pc |-> "idle", response_text |-> <<>>, emotions |-> <<>>,
     routed |-> "none", latency |-> <<>>]

ServerInit(e) ==
    /\ env = e
    /\ LLM_PROVIDER = e.LLM_PROVIDER
    /\ openai_client = (e.LLM_PROVIDER = "openai" /\ e.openai_package
                        /\ e.OPENAI_API_KEY)
    /\ claude_client = (e.LLM_PROVIDER # "openai" /\ e.ANTHROPIC_API_KEY)
    /\ switched = "none"
    /\ now = 0
    /\ pipeline_state = PipelineReset(0)
    /\ interaction_history = <<>>
    /\ conn = [c \in Conns |-> ClosedConn]
    /\ chat = [h \in Handlers |-> IdleChat]
    /\ invoked = NoInvocation
    /\ http = NoHttp

Init ==
    /\ \E e \in FullEnvironments : ServerInit(e)
    /\ norm = NormIdle
    /\ FrontendInit

providerVars == <<env, LLM_PROVIDER, claude_client, openai_client, switched>>

-----------------------------------------------------------------------------
(* The continuous channel: clm_websocket *)

\* websocket.accept() and the empty conversation.
WsConnect(c) ==
    /\ conn[c].pc = "closed"
    /\ conn' = [conn EXCEPT ![c] = [ClosedConn EXCEPT !.pc = "await"]]
    /\ http' = NoHttp
    /\ UNCHANGED <<providerVars, pipeline_state, interaction_history, now,
                   invoked, chat, norm,
                   ui, voice>>

\* The handler returning without pipeline_state.reset().
WsEndNoReset(c, clock) ==
    /\ pipeline_state' = pipeline_state
    /\ conn' = [conn EXCEPT ![c] = [ClosedConn EXCEPT !.outbox = conn[c].outbox]]

\* Both except clauses: pipeline_state.reset(), and the handler returns (its
\* conversation is gone with it).
WsEnd(c, clock) ==
    /\ pipeline_state' = PipelineReset(clock)
    /\ conn' = [conn EXCEPT ![c] = [ClosedConn EXCEPT !.outbox = conn[c].outbox]]

\* One pass of the loop from receive_text() to the await of send_text().
WsReceive(c, frame, outcome, elapsed) ==
    /\ conn[c].pc = "await"
    /\ http' = NoHttp
    /\ UNCHANGED <<providerVars, chat, norm,
                   ui, voice>>
    /\ LET transcript == ExtractTranscript(frame.payload)
           emotions == ExtractEmotions(frame.payload)
       IN
       IF frame.kind # "json" \/ transcript.kind = "raise" \/ emotions.kind = "raise"
       THEN /\ WsEnd(c, now)
            /\ UNCHANGED <<interaction_history, now, invoked>>
       ELSE IF transcript.val = <<>>
       THEN UNCHANGED <<pipeline_state, interaction_history, now, invoked, conn>>
       ELSE
       LET context == emotion_context_ws(emotions.val)
           user_message == transcript.val \o context.val
           conversation == Append(conn[c].conversation, Turn("user", user_message))
           transcribed == Transcribed(pipeline_state, transcript.val,
                                      emotions.val, now + 1)
           thinking == Thinking(transcribed)
           call == Invocation(c, conn[c].turns + 1, thinking.stage,
                              transcript.val, emotions.val, conversation, outcome)
           response_text == call.result.val
           speaking == Speaking(thinking, Round1(elapsed), response_text)
       IN
       /\ now < MaxTurns
       /\ now' = now + 1
       /\ IF context.kind = "raise"
          THEN /\ WsEnd(c, now')
               /\ UNCHANGED <<interaction_history, invoked>>
          ELSE /\ invoked' = call
               /\ IF call.result.kind = "raise"
                  THEN /\ WsEnd(c, now')
                       /\ UNCHANGED interaction_history
                  ELSE /\ pipeline_state' = speaking
                       /\ interaction_history' =
                              Append(interaction_history, to_dict(pipeline_state'))
                       /\ conn' = [conn EXCEPT
                              ![c].pc = "send",
                              ![c].turns = @ + 1,
                              ![c].stages = <<transcribed.stage, thinking.stage,
                                              speaking.stage>>,
                              ![c].conversation =
                                  AppendAssistant(conversation, response_text),
                              ![c].response_text = response_text]

\* await websocket.send_text(json.dumps(clm_response))
WsSend(c) ==
    /\ conn[c].pc = "send"
    /\ conn' = [conn EXCEPT
                  ![c].pc = "sleep",
                  ![c].outbox = Append(@, [type |-> "assistant_input",
                                           text |-> conn[c].response_text])]
    /\ http' = NoHttp
    /\ UNCHANGED <<providerVars, pipeline_state, interaction_history, now,
                   invoked, chat, norm,
                   ui, voice>>

\* send_text() raises because the peer has gone.
WsSendFails(c) ==
    /\ conn[c].pc = "send"
    /\ WsEnd(c, now)
    /\ http' = NoHttp
    /\ UNCHANGED <<providerVars, interaction_history, now, invoked, chat, norm,
                   ui, voice>>

\* The log holding the live state object instead of a snapshot of it: the
\* write of idle shows in the entry logged last.
WsWakeAliased(c) ==
    /\ conn[c].pc = "sleep"
    /\ pipeline_state' = [pipeline_state EXCEPT !.stage = "idle"]
    /\ interaction_history' =
          IF interaction_history = <<>> THEN interaction_history
          ELSE [interaction_history EXCEPT ![Len(interaction_history)] =
                   to_dict(pipeline_state')]
    /\ conn' = [conn EXCEPT ![c].pc = "await",
                            ![c].stages = Append(@, pipeline_state'.stage)]
    /\ http' = NoHttp
    /\ UNCHANGED <<providerVars, now, invoked, chat, norm,
                   ui, voice>>

\* await asyncio.sleep(0.5); pipeline_state.stage = "idle"
WsWake(c) ==
    /\ conn[c].pc = "sleep"
    /\ pipeline_state' = [pipeline_state EXCEPT !.stage = "idle"]
    /\ conn' = [conn EXCEPT ![c].pc = "await",
                            ![c].stages = Append(@, pipeline_state'.stage)]
    /\ http' = NoHttp
    /\ UNCHANGED <<providerVars, interaction_history, now, invoked, chat, norm,
                   ui, voice>>

-----------------------------------------------------------------------------
(* The one-shot call: direct_chat *)

\* The one-shot call continuing the conversation of an open connection.
SharedConversation(content) ==
    LET c == CHOOSE x \in Conns : \A y \in Conns : Len(conn[x].conversation) >= Len(conn[y].conversation)
    IN  Append(conn[c].conversation, Turn("user", content))

\* conversation = [{"role": "user", "content": f"{request.message}{emotion_context}"}]
ChatConversation(content) == <<Turn("user", content)>>

ServerError(h) == [req |-> "chat", by |-> h, body |-> <<"500">>]

\* From the first statement to the await of asyncio.sleep(0.3).  An exception
\* leaves the handler at once: the fields written so far stay as they are.
ChatStart(h, request, outcome, elapsed) ==
    /\ chat[h].pc = "idle"
    /\ now < MaxTurns
    /\ now' = now + 1
    /\ UNCHANGED <<providerVars, conn, norm,
                   ui, voice>>
    /\ LET transcribed == [pipeline_state EXCEPT !.stage = "transcribed",
                                                 !.transcript = request.message,
                                                 !.emotions = request.emotions]
           context == emotion_context_chat(request.emotions)
           conversation == ChatConversation(request.message \o context.val)
           call == Invocation(h, 0, "thinking", request.message,
                              request.emotions, conversation, outcome)
           response_text == call.result.val
       IN
       IF context.kind = "raise"
       THEN /\ pipeline_state' = transcribed
            /\ http' = ServerError(h)
            /\ UNCHANGED <<interaction_history, invoked, chat>>
       ELSE /\ invoked' = call
            /\ IF call.result.kind = "raise"
               THEN /\ pipeline_state' = [transcribed EXCEPT !.stage = "thinking"]
                    /\ http' = ServerError(h)
                    /\ UNCHANGED <<interaction_history, chat>>
               ELSE /\ pipeline_state' =
                           [transcribed EXCEPT !.latency_ms = <<Round1(elapsed)>>,
                                               !.stage = "speaking",
                                               !.response = response_text]
                    /\ interaction_history' =
                           Append(interaction_history, to_dict(pipeline_state'))
                    /\ chat' = [chat EXCEPT ![h] =
                                  [pc |-> "sleep", response_text |-> response_text,
                                   emotions |-> request.emotions,
                                   routed |-> call.routed,
                                   latency |-> <<Round1(elapsed)>>]]
                    /\ http' = NoHttp

\* The call that, answering, selects the provider its reply came from.
ChatFinishSelectsRouted(h) ==
    /\ chat[h].pc = "sleep"
    /\ pipeline_state' = [pipeline_state EXCEPT !.stage = "idle"]
    /\ LLM_PROVIDER' = chat[h].routed
    /\ http' = [req |-> "chat", by |-> h,
                body |-> [response |-> chat[h].response_text,
                          latency_ms |-> pipeline_state.latency_ms,
                          emotions_detected |-> chat[h].emotions,
                          llm_provider |-> LLM_PROVIDER']]
    /\ chat' = [chat EXCEPT ![h] = IdleChat]
    /\ UNCHANGED <<env, claude_client, openai_client, switched,
                   interaction_history, now, conn, invoked, norm,
                   ui, voice>>

\* pipeline_state.stage = "idle" and the response body, after the sleep.
ChatFinish(h) ==
    /\ chat[h].pc = "sleep"
    /\ pipeline_state' = [pipeline_state EXCEPT !.stage = "idle"]
    /\ http' = [req |-> "chat", by |-> h,
                body |-> [response |-> chat[h].response_text,
                          latency_ms |-> pipeline_state.latency_ms,
                          emotions_detected |-> chat[h].emotions,
                          llm_provider |-> LLM_PROVIDER]]
    /\ chat' = [chat EXCEPT ![h] = IdleChat]
    /\ UNCHANGED <<providerVars, interaction_history, now, conn, invoked, norm,
                   ui, voice>>

-----------------------------------------------------------------------------
(* The REST endpoints *)

\* The bodies a status query and a history query return in the current state
\* (both handlers only read).
get_status ==
    LET data == to_dict(pipeline_state) IN
    [stage |-> data.stage, transcript |-> data.transcript,
     response |-> data.response, emotions |-> data.emotions,
     timestamp |-> data.timestamp, latency_ms |-> data.latency_ms,
     llm_provider |-> LLM_PROVIDER]

get_history == [interactions |-> interaction_history]

\* The reset that leaves the log alone.
reset_state_keeps_history ==
    /\ pipeline_state' = PipelineReset(now)
    /\ interaction_history' = interaction_history
    /\ http' = [req |-> "reset", by |-> "ui", body |-> [status |-> "reset"]]
    /\ UNCHANGED <<providerVars, now, conn, chat, invoked, norm,
                   ui, voice>>

\* The reset that goes back to the provider named in the environment.
reset_state_default_provider ==
    /\ pipeline_state' = PipelineReset(now)
    /\ interaction_history' = <<>>
    /\ LLM_PROVIDER' = IF env.LLM_PROVIDER = "openai" THEN "openai" ELSE "claude"
    /\ http' = [req |-> "reset", by |-> "ui", body |-> [status |-> "reset"]]
    /\ UNCHANGED <<env, claude_client, openai_client, switched, now, conn, chat,
                   invoked, norm,
                   ui, voice>>

reset_state ==
    /\ pipeline_state' = PipelineReset(now)
    /\ interaction_history' = <<>>
    /\ http' = [req |-> "reset", by |-> "ui", body |-> [status |-> "reset"]]
    /\ UNCHANGED <<providerVars, now, conn, chat, invoked, norm,
                   ui, voice>>

\* The reason a switch to provider is refused, "" when it is not.
SwitchError(provider) ==
    CASE provider \notin {"claude", "openai"} -> "Provider must be 'claude' or 'openai'"
      [] provider = "openai" /\ ~env.openai_package -> "openai package not installed. Run: pip install openai"
      [] provider = "openai" /\ ~env.OPENAI_API_KEY -> "OPENAI_API_KEY not set in .env"
      [] provider = "claude" /\ ~env.ANTHROPIC_API_KEY -> "ANTHROPIC_API_KEY not set in .env"
      [] OTHER -> ""

\* The selection assigned before the credential is looked up.
switch_provider_eager(provider) ==
    /\ IF provider \notin {"claude", "openai"}
       THEN /\ http' = [req |-> "switch", by |-> provider,
                        body |-> [error |-> SwitchError(provider)]]
            /\ UNCHANGED <<LLM_PROVIDER, claude_client, openai_client, switched>>
       ELSE IF SwitchError(provider) # ""
       THEN /\ LLM_PROVIDER' = provider
            /\ http' = [req |-> "switch", by |-> provider,
                        body |-> [error |-> SwitchError(provider)]]
            /\ UNCHANGED <<claude_client, openai_client, switched>>
       ELSE /\ openai_client' = IF provider = "openai" THEN TRUE ELSE openai_client
            /\ claude_client' = IF provider = "claude" THEN TRUE ELSE claude_client
            /\ LLM_PROVIDER' = provider
            /\ switched' = provider
            /\ http' = [req |-> "switch", by |-> provider,
                        body |-> [status |-> "switched", llm_provider |-> provider]]
    /\ UNCHANGED <<env, pipeline_state, interaction_history, now, conn, chat,
                   invoked, norm,
                   ui, voice>>

\* The selection changed without the client being created.
switch_provider_no_client(provider) ==
    /\ IF SwitchError(provider) # ""
       THEN /\ http' = [req |-> "switch", by |-> provider,
                        body |-> [error |-> SwitchError(provider)]]
            /\ UNCHANGED <<LLM_PROVIDER, claude_client, openai_client, switched>>
       ELSE /\ LLM_PROVIDER' = provider
            /\ switched' = provider
            /\ http' = [req |-> "switch", by |-> provider,
                        body |-> [status |-> "switched", llm_provider |-> provider]]
            /\ UNCHANGED <<claude_client, openai_client>>
    /\ UNCHANGED <<env, pipeline_state, interaction_history, now, conn, chat,
                   invoked, norm,
                   ui, voice>>

\* The switch that starts every open conversation afresh.
switch_provider_fresh(provider) ==
    /\ IF SwitchError(provider) # ""
       THEN /\ http' = [req |-> "switch", by |-> provider,
                        body |-> [error |-> SwitchError(provider)]]
            /\ UNCHANGED <<LLM_PROVIDER, claude_client, openai_client, switched, conn>>
       ELSE /\ openai_client' = IF provider = "openai" THEN TRUE ELSE openai_client
            /\ claude_client' = IF provider = "claude" THEN TRUE ELSE claude_client
            /\ LLM_PROVIDER' = provider
            /\ switched' = provider
            /\ conn' = [c \in Conns |-> [conn[c] EXCEPT !.conversation = <<>>]]
            /\ http' = [req |-> "switch", by |-> provider,
                        body |-> [status |-> "switched", llm_provider |-> provider]]
    /\ UNCHANGED <<env, pipeline_state, interaction_history, now, chat,
                   invoked, norm,
                   ui, voice>>

switch_provider(provider) ==
    /\ IF SwitchError(provider) # ""
       THEN /\ http' = [req |-> "switch", by |-> provider,
                        body |-> [error |-> SwitchError(provider)]]
            /\ UNCHANGED <<LLM_PROVIDER, claude_client, openai_client, switched>>
       ELSE /\ openai_client' = IF provider = "openai" THEN TRUE ELSE openai_client
            /\ claude_client' = IF provider = "claude" THEN TRUE ELSE claude_client
            /\ LLM_PROVIDER' = provider
            /\ switched' = provider
            /\ http' = [req |-> "switch", by |-> provider,
                        body |-> [status |-> "switched", llm_provider |-> provider]]
    /\ UNCHANGED <<env, pipeline_state, interaction_history, now, conn, chat,
                   invoked, norm,
                   ui, voice>>

-----------------------------------------------------------------------------
(* The relay with the provider chosen at start-up and every credential set *)

Next ==
    \/ \E c \in Conns : WsConnect(c)
    \/ \E c \in Conns, frame \in WsFrames, outcome \in Outcomes, elapsed \in Elapsed :
          WsReceive(c, frame, outcome, elapsed)
    \/ \E c \in Conns : WsSend(c)
    \/ \E c \in Conns : WsSendFails(c)
    \/ \E c \in Conns : WsWake(c)
    \/ \E h \in Handlers, request \in ChatRequests, outcome \in Outcomes,
          elapsed \in Elapsed : ChatStart(h, request, outcome, elapsed)
    \/ \E h \in Handlers : ChatFinish(h)
    \/ reset_state

Spec == Init /\ [][Next]_vars

-----------------------------------------------------------------------------
(* Provider selection: the process started in any environment, switch       *)
(* requests interleaved with turns of one plain utterance                   *)

InitSwitch ==
    /\ \E e \in Environments : ServerInit(e)
    /\ norm = NormIdle
    /\ FrontendInit

SwitchFrames == {Disconnect, Json(PayloadTranscript)}
SwitchOutcomes == {"ok", "other_error"}

NextSwitch ==
    \/ \E provider \in SwitchTargets : switch_provider(provider)
    \/ \E c \in Conns : WsConnect(c)
    \/ \E c \in Conns, frame \in SwitchFrames, outcome \in SwitchOutcomes, elapsed \in Elapsed :
          WsReceive(c, frame, outcome, elapsed)
    \/ \E c \in Conns : WsSend(c)
    \/ \E c \in Conns : WsWake(c)
    \/ \E h \in Handlers, outcome \in SwitchOutcomes, elapsed \in Elapsed :
          ChatStart(h, RequestPlain, outcome, elapsed)
    \/ \E h \in Handlers : ChatFinish(h)
    \/ reset_state

SpecSwitch == InitSwitch /\ [][NextSwitch]_vars

-----------------------------------------------------------------------------
(* The message normalizer on its own: one generated payload, normalized     *)

Absent == [t |-> "absent", v |-> 0]

\* The mapping with the given keys, those marked absent left out.
MakeMap(fields) ==
    Map([k \in {x \in DOMAIN fields : fields[x].t # "absent"} |-> fields[k]])

UserMsg(content) == Map([role |-> Str(<<"user">>), content |-> content])

MsgEntries ==
    {Str(<<"a">>),
     UserMsg(Str(<<" ", "a", " ">>)),
     UserMsg(Map([text |-> Str(<<"b", " ">>)])),
     UserMsg(List(<<>>)),
     UserMsg(Map([text |-> Num(5)])),
     Map([role |-> Str(<<"assistant">>), content |-> Str(<<"b">>)]),
     Map([role |-> Str(<<"user">>), content |-> Str(<<"b">>),
          models |-> Prosody(<<Emo("calm", 100), Emo("joy", 904)>>)]),
     Map([role |-> Str(<<"user">>)])}

MessagesValues ==
    {Absent, Num(5)}
    \cup {List(l) : l \in UNION {[1..n -> MsgEntries] : n \in 0..MaxMsgs}}

TranscriptValues == {Absent, Str(<<" ", "a">>), Num(5)}
TextValues == {Absent, Str(<<"b", " ">>), Null}
ModelsValues ==
    {Absent, Num(5), Map([prosody |-> EmptyMap]),
     Prosody(<<Emo("joy", 904), EmptyMap>>),
     Map([prosody |-> Map([predictions |-> List(<<Num(1)>>)])])}
FeaturesValues ==
    {Absent, Num(5), Map([joy |-> Num(396), calm |-> Num(52)]),
     Map([joy |-> Str(<<"high">>)])}

NormPayloads ==
    {List(<<>>), Num(5), Null}
    \cup {MakeMap([messages |-> ms, transcript |-> tr, text |-> tx, models |-> mo,
                   emotion_features |-> ef]) :
            ms \in MessagesValues, tr \in TranscriptValues, tx \in TextValues,
            mo \in ModelsValues, ef \in FeaturesValues}

InitNorm ==
    /\ \E e \in FullEnvironments : e.LLM_PROVIDER = "claude" /\ ServerInit(e)
    /\ \E p \in NormPayloads :
          norm = [phase |-> "input", message |-> p, transcript |-> Raise,
                  emotions |-> Raise]
    /\ FrontendInit

\* transcript = _extract_transcript(message); emotions = _extract_emotions(message)
Normalize ==
    /\ norm.phase = "input"
    /\ norm' = [phase |-> "done", message |-> norm.message,
                transcript |-> ExtractTranscript(norm.message),
                emotions |-> ExtractEmotions(norm.message)]
    /\ UNCHANGED <<providerVars, pipeline_state, interaction_history, now, conn,
                   chat, invoked, http, ui, voice>>

NextNorm == Normalize

SpecNorm == InitNorm /\ [][NextNorm]_vars

-----------------------------------------------------------------------------
(* The provider toggle of the frontend: one run of the Streamlit script up  *)
(* to the POST, the server's handling of it, and the rest of the run        *)

serverVars == <<env, LLM_PROVIDER, claude_client, openai_client, switched,
                pipeline_state, interaction_history, now, conn, chat, invoked>>

\* The status code of the reply to POST /switch/{provider}: the handler
\* returns a dict on every path, which is sent with the default status.
SwitchStatusCode(resp) == 200

\* The script from its top to the POST of render_llm_toggle.  GET / gives
\* current_provider (the session's value when the server is not reached);
\* "active_provider" is in the session already, so current_provider is not
\* stored; the server is called only when the toggle differs from the session.
ToggleRender(use_chatgpt, clm_connected) ==
    /\ ui.pc = "idle"
    /\ LET current_provider == IF clm_connected THEN LLM_PROVIDER
                               ELSE ui.active_provider
           desired == IF use_chatgpt THEN "openai" ELSE "claude"
       IN  ui' = [ui EXCEPT !.current_provider = current_provider,
                            !.desired = desired,
                            !.error = FALSE,
                            !.pc = IF desired # ui.active_provider
                                   THEN "posting" ELSE "idle"]
    /\ http' = NoHttp
    /\ UNCHANGED <<serverVars, norm, voice>>

\* The server handles the POST the frontend is waiting for.
ToggleSwitch ==
    /\ ui.pc = "posting"
    /\ http.req = "none"
    /\ switch_provider(ui.desired)

\* The reply arrives: on status 200 the session takes the desired provider
\* and st.rerun() runs the script again, which reads GET / and finds the
\* toggle equal to the session.
ToggleResponse ==
    /\ ui.pc = "posting"
    /\ http.req = "switch"
    /\ ui' = IF SwitchStatusCode(http) = 200
             THEN [ui EXCEPT !.active_provider = ui.desired,
                             !.current_provider = LLM_PROVIDER,
                             !.pc = "idle"]
             ELSE [ui EXCEPT !.pc = "idle"]
    /\ UNCHANGED <<serverVars, http, norm, voice>>

\* The POST raises (no connection, or no reply within the timeout).
ToggleFails ==
    /\ ui.pc = "posting"
    /\ ui' = [ui EXCEPT !.error = TRUE, !.pc = "idle"]
    /\ UNCHANGED <<serverVars, http, norm, voice>>

InitToggle ==
    /\ \E e \in Environments : ServerInit(e)
    /\ norm = NormIdle
    /\ FrontendInit

NextToggle ==
    \/ \E use_chatgpt \in BOOLEAN, clm_connected \in BOOLEAN :
          ToggleRender(use_chatgpt, clm_connected)
    \/ ToggleSwitch
    \/ ToggleResponse
    \/ ToggleFails

SpecToggle == InitToggle /\ [][NextToggle]_vars

-----------------------------------------------------------------------------
(* The live-voice widget: the script of tab_voice_voice.py, one action per  *)
(* event handler, each run to its end or to its first await.  Subtitles,    *)
(* the waveform and the analyser nodes are display only and left out.       *)

S == [IDLE |-> "idle", CONNECTING |-> "connecting", LISTENING |-> "listening",
      THINKING |-> "ai_thinking", SPEAKING |-> "ai_speaking"]

setState(v, s) == [v EXCEPT !.state = s]

showError(v) == [v EXCEPT !.error = TRUE]

\* ws.close(): a socket that is connecting or open starts to close; the
\* close event of the socket follows later.
CloseSocket(socks, s) ==
    IF s # 0 /\ socks[s] \in {"connecting", "open"}
    THEN [socks EXCEPT ![s] = "closing"]
    ELSE socks

stopPlayback(v) == [v EXCEPT !.audioQueue = 0, !.isPlaying = FALSE]

cleanup(v) ==
    setState([stopPlayback(v) EXCEPT !.mediaRecorder = "null",
                                     !.micStream = FALSE,
                                     !.socks = CloseSocket(v.socks, v.ws),
                                     !.ws = 0],
             S.IDLE)

stopSession(v) == cleanup(v)

\* audioQueue.push(buffer); if (!isPlaying) playNext(): the buffer is taken
\* off the queue again at once when nothing is being played.
enqueueAudio(v) ==
    IF v.isPlaying THEN [v EXCEPT !.audioQueue = @ + 1]
    ELSE [v EXCEPT !.isPlaying = TRUE]

HumeMessages == {"binary", "user_message", "assistant_message", "audio_output",
                 "user_interruption", "assistant_end", "chat_metadata"}

handleMsg(v, type) ==
    CASE type = "user_message" -> setState(v, S.THINKING)
      [] type = "audio_output" -> enqueueAudio(setState(v, S.SPEAKING))
      [] type = "user_interruption" -> setState(stopPlayback(v), S.LISTENING)
      [] type = "assistant_end" -> [v EXCEPT !.draining = TRUE]
      [] OTHER -> v

widgetRest == <<serverVars, http, norm, ui>>

\* A click on the microphone button (the error overlay covers it while shown):
\* startSession up to the await of getUserMedia, or stopSession.
MicClick(supported) ==
    /\ ~voice.error
    /\ IF voice.state = S.IDLE
       THEN IF ~supported
            THEN voice' = showError(voice)
            ELSE /\ voice.pending < MaxPending
                 /\ voice' = [setState(voice, S.CONNECTING) EXCEPT !.pending = @ + 1]
       ELSE voice' = [stopSession(voice) EXCEPT
                         !.stopped = IF voice.ws # 0 THEN @ \cup {voice.ws} ELSE @]
    /\ UNCHANGED widgetRest

\* getUserMedia settles and startSession runs to its end: the stream, the
\* recorder and a new socket are assigned to the globals, whatever they held.
MicSettled(granted, recorder_ok, socket_ok) ==
    /\ voice.pending > 0
    /\ LET v0 == [voice EXCEPT !.pending = @ - 1]
           v1 == [v0 EXCEPT !.micStream = TRUE]
           v2 == [v1 EXCEPT !.mediaRecorder = "inactive"]
           s == voice.made + 1
       IN  IF ~granted THEN voice' = setState(showError(v0), S.IDLE)
           ELSE IF ~recorder_ok THEN voice' = cleanup(showError(v1))
           ELSE IF ~socket_ok THEN voice' = cleanup(showError(v2))
           ELSE /\ voice.made < MaxSockets
                /\ voice' = [v2 EXCEPT !.made = s, !.ws = s,
                                       !.socks = [@ EXCEPT ![s] = "connecting"]]
    /\ UNCHANGED widgetRest

\* onopen of socket s: ws.send on the global ws raises when that is null or
\* still connecting, and the handler ends there; mediaRecorder.start raises
\* on null or on a recorder already started, after the state is set.
SocketOpen(s) ==
    /\ voice.socks[s] = "connecting"
    /\ LET v0 == [voice EXCEPT !.socks = [@ EXCEPT ![s] = "open"]]
       IN  IF v0.ws = 0 \/ v0.socks[v0.ws] = "connecting"
           THEN voice' = v0
           ELSE voice' = [setState(v0, S.LISTENING) EXCEPT
                             !.mediaRecorder = IF @ = "null" THEN "null"
                                               ELSE "recording"]
    /\ UNCHANGED widgetRest

\* onmessage of socket s: a binary frame is audio, a text frame goes to handleMsg.
SocketMessage(s, type) ==
    /\ voice.socks[s] = "open"
    /\ (type \in {"binary", "audio_output"} /\ voice.isPlaying)
          => voice.audioQueue < MaxQueue
    /\ voice' = IF type = "binary"
                THEN enqueueAudio(setState(voice, S.SPEAKING))
                ELSE handleMsg(voice, type)
    /\ UNCHANGED widgetRest

\* onerror of socket s; the close event of s follows.
SocketError(s) ==
    /\ voice.socks[s] \in {"connecting", "open", "closing"}
    /\ voice' = cleanup(showError([voice EXCEPT
                                      !.socks = [@ EXCEPT ![s] = "failing"]]))
    /\ UNCHANGED widgetRest

\* onclose of socket s, with one of the codes that show the message or not.
SocketClose(s, expired) ==
    /\ voice.socks[s] \in {"open", "closing", "failing"}
    /\ LET v0 == [voice EXCEPT !.socks = [@ EXCEPT ![s] = "closed"]]
       IN  voice' = IF voice.state # S.IDLE
                    THEN cleanup(IF expired THEN showError(v0) ELSE v0)
                    ELSE v0
    /\ UNCHANGED widgetRest

\* onended of the buffer being played: playNext.
PlaybackEnded ==
    /\ voice.isPlaying
    /\ voice' = IF voice.audioQueue = 0 THEN [voice EXCEPT !.isPlaying = FALSE]
                ELSE [voice EXCEPT !.audioQueue = @ - 1]
    /\ UNCHANGED widgetRest

\* The tick of waitForDrain that finds nothing playing and nothing queued.
DrainTick ==
    /\ voice.draining
    /\ ~voice.isPlaying /\ voice.audioQueue = 0
    /\ voice' = [(IF voice.state = S.SPEAKING THEN setState(voice, S.LISTENING)
                  ELSE voice) EXCEPT !.draining = FALSE]
    /\ UNCHANGED widgetRest

dismissError ==
    /\ voice.error
    /\ voice' = cleanup([voice EXCEPT !.error = FALSE])
    /\ UNCHANGED widgetRest

InitVoice ==
    /\ \E e \in FullEnvironments : e.LLM_PROVIDER = "claude" /\ ServerInit(e)
    /\ norm = NormIdle
    /\ FrontendInit

NextVoice ==
    \/ \E supported \in BOOLEAN : MicClick(supported)
    \/ \E granted \in BOOLEAN, recorder_ok \in BOOLEAN, socket_ok \in BOOLEAN :
          MicSettled(granted, recorder_ok, socket_ok)
    \/ \E s \in Sockets : SocketOpen(s)
    \/ \E s \in Sockets, type \in HumeMessages : SocketMessage(s, type)
    \/ \E s \in Sockets : SocketError(s)
    \/ \E s \in Sockets, expired \in BOOLEAN : SocketClose(s, expired)
    \/ PlaybackEnded
    \/ DrainTick
    \/ dismissError

SpecVoice == InitVoice /\ [][NextVoice]_vars

-----------------------------------------------------------------------------
(* Provider selection: properties of SpecSwitch *)

\* provider cannot be switched to in the environment the process runs in.
Unavailable(provider) ==
    \/ provider \notin {"claude", "openai"}
    \/ provider = "openai" /\ (~env.openai_package \/ ~env.OPENAI_API_KEY)
    \/ provider = "claude" /\ ~env.ANTHROPIC_API_KEY

\* C1: a switch request for a provider that is unsupported, lacks its
\* package or lacks its credential is answered with an error body, and a
\* switch answered with an error body leaves LLM_PROVIDER, claude_client and
\* openai_client as they were; the status query after it reports the provider
\* selected before it.
RejectedSwitchChangesNothing ==
    [][http'.req = "switch" =>
          /\ Unavailable(http'.by) => DOMAIN http'.body = {"error"}
          /\ "error" \in DOMAIN http'.body =>
                /\ LLM_PROVIDER' = LLM_PROVIDER
                /\ claude_client' = claude_client
                /\ openai_client' = openai_client
                /\ get_status'.llm_provider = get_status.llm_provider]_vars

\* A switch to openai refused for its missing key while claude is active.
RejectedSwitchSeen ==
    /\ http.req = "switch"
    /\ http.by = "openai"
    /\ "error" \in DOMAIN http.body
    /\ env.openai_package /\ ~env.OPENAI_API_KEY
    /\ LLM_PROVIDER = "claude" /\ claude_client /\ ~openai_client
    /\ get_status.llm_provider = "claude"

\* C2: a switch answered "switched" for P leaves LLM_PROVIDER = P with P's
\* client created and the other client as it was; no other step changes the
\* selection, so every invocation made after a successful switch goes to the
\* provider of the latest one, finds its client and does not get the
\* "not configured" text.
SwitchedRoutesTurns ==
    [][/\ (http'.req = "switch" /\ "status" \in DOMAIN http'.body) =>
             LET P == http'.body.llm_provider IN
             /\ http'.body.status = "switched"
             /\ P = http'.by
             /\ LLM_PROVIDER' = P
             /\ switched' = P
             /\ IF P = "openai"
                THEN openai_client' /\ claude_client' = claude_client
                ELSE claude_client' /\ openai_client' = openai_client
       /\ ~(http'.req = "switch" /\ "status" \in DOMAIN http'.body) =>
             switched' = switched /\ LLM_PROVIDER' = LLM_PROVIDER
       /\ (invoked' # invoked /\ switched # "none") =>
             /\ invoked'.after = switched
             /\ invoked'.routed = switched
             /\ invoked'.requested
             /\ invoked'.result \notin {Ret(NotConfiguredClaude),
                                        Ret(NotConfiguredOpenAI)}]_vars

\* A turn of the channel answered by openai after a switch, in a process
\* started with claude selected.
TurnAfterSwitchSeen ==
    /\ env.LLM_PROVIDER = "claude"
    /\ invoked.by \in Conns
    /\ invoked.after = "openai"
    /\ invoked.routed = "openai"
    /\ invoked.result = Ret(ReplyOf("openai"))

-----------------------------------------------------------------------------
(* The message normalizer: properties of SpecNorm *)

\* C3: on every payload that is a mapping both _extract_transcript and
\* _extract_emotions return.
NormalizerTotal ==
    (norm.phase = "done" /\ norm.message.t = "map") =>
        norm.transcript.kind = "ret" /\ norm.emotions.kind = "ret"

\* s without its leading and trailing whitespace.
Trimmed(s) ==
    LET keep == {i \in 1..Len(s) : s[i] # " "} IN
    IF keep = {} THEN <<>>
    ELSE SubSeq(s, CHOOSE i \in keep : \A j \in keep : i <= j,
                   CHOOSE i \in keep : \A j \in keep : i >= j)

Field(x, k) == IF x.t = "map" /\ k \in DOMAIN x.v THEN x.v[k] ELSE Null
AsList(x) == IF x.t = "list" THEN x.v ELSE <<>>
TrimmedText(x) == IF x.t = "str" THEN Trimmed(x.v) ELSE <<>>

\* The entries of the messages list whose role is user.
UserEntries(message) ==
    LET msgs == AsList(Field(message, "messages")) IN
    {i \in 1..Len(msgs) : Field(msgs[i], "role") = Str(<<"user">>)}

\* The transcript the extraction rules give, first match first.
RuleTranscript(message) ==
    LET msgs == AsList(Field(message, "messages"))
        users == UserEntries(message)
    IN
    IF users # {}
    THEN LET last == CHOOSE i \in users : \A j \in users : i >= j
             content == IF "content" \in DOMAIN msgs[last].v
                        THEN msgs[last].v["content"] ELSE Str(<<>>)
         IN  IF content.t = "map" THEN TrimmedText(Field(content, "text"))
             ELSE TrimmedText(content)
    ELSE IF In(message, "transcript") THEN TrimmedText(message.v["transcript"])
    ELSE IF In(message, "text") THEN TrimmedText(message.v["text"])
    ELSE <<>>

\* C5: whenever _extract_transcript returns, its result is the one the rules
\* give: the latest user entry of messages if there is one, else the
\* top-level transcript, else the top-level text, else the empty string.
TranscriptRulesInOrder ==
    (norm.phase = "done" /\ norm.message.t = "map"
        /\ norm.transcript.kind = "ret") =>
        norm.transcript.val = RuleTranscript(norm.message)

RECURSIVE CountEmotions(_, _)
CountEmotions(preds, i) ==
    IF i > Len(preds) THEN 0
    ELSE Len(AsList(Field(preds[i], "emotions"))) + CountEmotions(preds, i + 1)

\* The number of emotion objects in the prosody predictions of holder.
ProsodyCount(holder) ==
    CountEmotions(AsList(Field(Field(Field(holder, "models"), "prosody"),
                               "predictions")), 1)

RECURSIVE MessagesCount(_, _)
MessagesCount(msgs, i) ==
    IF i > Len(msgs) THEN 0
    ELSE ProsodyCount(msgs[i]) + MessagesCount(msgs, i + 1)

FeaturesCount(message) ==
    LET f == Field(message, "emotion_features") IN
    IF f.t = "map" THEN Cardinality(DOMAIN f.v) ELSE 0

\* C6: on every payload _extract_emotions returns a list as long as the
\* emotion objects of the top-level predictions, of the predictions of the
\* messages entries and of emotion_features together.
EmotionsConcatenated ==
    (norm.phase = "done" /\ norm.message.t = "map") =>
        /\ norm.emotions.kind = "ret"
        /\ Len(norm.emotions.val) =
              ProsodyCount(norm.message)
              + MessagesCount(AsList(Field(norm.message, "messages")), 1)
              + FeaturesCount(norm.message)

-----------------------------------------------------------------------------
(* The relay: properties of Spec *)

\* A frame that is no JSON, whose JSON value is no mapping, or on whose
\* payload the normalizer raises.
Malformed(frame) ==
    \/ frame.kind = "garbage"
    \/ /\ frame.kind = "json"
       /\ \/ frame.payload.t # "map"
          \/ ExtractTranscript(frame.payload).kind = "raise"
          \/ ExtractEmotions(frame.payload).kind = "raise"

\* C4: receiving a malformed frame changes neither pipeline_state nor
\* interaction_history nor the connection (its conversation, what it has
\* sent, and its place at receive_text()).
MalformedFrameIsNoOp ==
    [][\A c \in Conns, frame \in WsFrames, outcome \in Outcomes, elapsed \in Elapsed :
          (Malformed(frame) /\ WsReceive(c, frame, outcome, elapsed)) =>
              /\ pipeline_state' = pipeline_state
              /\ interaction_history' = interaction_history
              /\ conn'[c] = conn[c]]_vars

\* C8: receiving a message whose extracted transcript is empty changes
\* neither pipeline_state nor interaction_history nor the connection, and
\* invokes no provider.
EmptyTranscriptNoSideEffects ==
    [][\A c \in Conns, frame \in WsFrames, outcome \in Outcomes, elapsed \in Elapsed :
          (/\ frame.kind = "json"
           /\ ExtractTranscript(frame.payload) = Ret(<<>>)
           /\ WsReceive(c, frame, outcome, elapsed)) =>
              /\ pipeline_state' = pipeline_state
              /\ interaction_history' = interaction_history
              /\ invoked' = invoked
              /\ conn'[c] = conn[c]]_vars

Score(e) == e.v["score"].v

\* How many entries come before entry i when the highest score goes first
\* and, of equal scores, the earlier entry.
Rank(es, i) ==
    Cardinality({j \in 1..Len(es) :
                    \/ Score(es[j]) > Score(es[i])
                    \/ Score(es[j]) = Score(es[i]) /\ j < i})

\* A score in thousandths written with two decimals: the nearest hundredth.
TwoDecimals(score) ==
    LET h == CHOOSE x \in 0..200 : 10 * x - 5 <= score /\ score < 10 * x + 5
    IN  <<Digit(h \div 100), ".", Digit((h \div 10) % 10), Digit(h % 10)>>

RECURSIVE Listed(_, _, _)
Listed(es, r, count) ==
    IF r >= count THEN <<>>
    ELSE LET e == es[CHOOSE i \in 1..Len(es) : Rank(es, i) = r] IN
         (IF r > 0 THEN <<", ">> ELSE <<>>)
         \o e.v["name"].v \o <<": ">> \o TwoDecimals(Score(e))
         \o Listed(es, r + 1, count)

\* The user content of a turn: the transcript, and with emotions the summary
\* of the five highest.
Enriched(transcript, emotions) ==
    IF emotions = <<>> THEN transcript
    ELSE transcript \o <<"\n[Voice emotion analysis: ">>
         \o Listed(emotions, 0, IF Len(emotions) < 5 THEN Len(emotions) ELSE 5)
         \o <<"]">>

\* C7: the last turn of every provider invocation, from the channel and from
\* /chat alike, is a user turn whose content is the transcript alone when
\* there are no emotions, and otherwise the transcript followed by one
\* bracketed list of the (at most five) highest-scored emotions, highest
\* first, each as name: score with two decimals.
EnrichedContentSent ==
    invoked.by # "none" =>
        LET last == invoked.turns[Len(invoked.turns)] IN
        /\ last.role = "user"
        /\ last.content = Enriched(invoked.transcript, invoked.emotions)

\* /chat has sent the five highest of six emotions while a connection holds
\* a turn enriched with five of seven.
EnrichedBothPathsSeen ==
    /\ invoked.by \in Handlers
    /\ Len(invoked.emotions) = 6
    /\ invoked.turns[1].content =
          <<" ", "b", "\n[Voice emotion analysis: ",
            "joy", ": ", "0", ".", "9", "0", ", ",
            "fear", ": ", "0", ".", "9", "0", ", ",
            "joy", ": ", "0", ".", "4", "0", ", ",
            "anger", ": ", "0", ".", "4", "0", ", ",
            "calm", ": ", "0", ".", "1", "0", "]">>
    /\ \E c \in Conns :
          /\ Len(conn[c].conversation) = 2
          /\ conn[c].conversation[1].content =
                <<"b", "\n[Voice emotion analysis: ",
                  "joy", ": ", "0", ".", "9", "0", ", ",
                  "fear", ": ", "0", ".", "9", "0", ", ",
                  "awe", ": ", "0", ".", "7", "1", ", ",
                  "joy", ": ", "0", ".", "4", "0", ", ",
                  "anger", ": ", "0", ".", "4", "0", "]">>

Alternates(turns) ==
    \A i \in 1..Len(turns) :
        turns[i].role = IF i % 2 = 1 THEN "user" ELSE "assistant"

IsPrefix(s, t) == Len(s) <= Len(t) /\ SubSeq(t, 1, Len(s)) = s

\* C9: on a connection the invocation for its n-th utterance carries 2n-1
\* turns alternating user, assistant, ..., user; all but the last are the
\* conversation of the connection as the earlier turns left it, and the turn
\* leaves that conversation extended by the new user content and the reply.
\* While the connection is open its conversation only grows at the end.
ChannelHistoryAccumulates ==
    [][\A c \in Conns :
          /\ invoked'.by = c =>
                /\ Len(invoked'.turns) = 2 * invoked'.nth - 1
                /\ Alternates(invoked'.turns)
          /\ (invoked' # invoked /\ invoked'.by = c) =>
                /\ invoked'.nth = conn[c].turns + 1
                /\ Len(conn[c].conversation) = 2 * conn[c].turns
                /\ SubSeq(invoked'.turns, 1, Len(invoked'.turns) - 1)
                      = conn[c].conversation
                /\ conn'[c].pc # "closed" =>
                      /\ conn'[c].turns = invoked'.nth
                      /\ conn'[c].conversation =
                            Append(invoked'.turns,
                                   Turn("assistant", invoked'.result.val))
          /\ (conn[c].pc # "closed" /\ conn'[c].pc # "closed") =>
                IsPrefix(conn[c].conversation, conn'[c].conversation)]_vars

\* The second utterance of a connection has been answered.
SecondTurnSeen ==
    \E c \in Conns :
        /\ invoked.by = c
        /\ invoked.nth = 2
        /\ Len(invoked.turns) = 3
        /\ conn[c].pc = "send"
        /\ Len(conn[c].conversation) = 4

\* C10: every invocation made by /chat carries exactly one turn, the user
\* turn built from the request alone, and no step of a /chat handler changes
\* the conversation (or anything else) of a connection.
OneShotIsolated ==
    [][\A h \in Handlers :
          /\ (invoked' # invoked /\ invoked'.by = h) =>
                invoked'.turns =
                    <<Turn("user", Enriched(invoked'.transcript, invoked'.emotions))>>
          /\ (chat'[h] # chat[h] \/ (http'.req = "chat" /\ http'.by = h)) =>
                conn' = conn]_vars

\* A /chat call made while a connection is in the middle of a turn.
OneShotDuringTurnSeen ==
    \E h \in Handlers, c \in Conns :
        /\ invoked.by = h
        /\ Len(invoked.turns) = 1
        /\ chat[h].pc = "sleep"
        /\ conn[c].pc = "sleep"
        /\ Len(conn[c].conversation) = 2

-----------------------------------------------------------------------------
(* Reset: properties of SpecSwitch *)

\* What a history query and a status query return shows nothing of a turn.
Cleared ==
    /\ get_history.interactions = <<>>
    /\ get_status.stage = "idle"
    /\ get_status.transcript = <<>>
    /\ get_status.response = <<>>

\* C11: right after a reset the history query returns no interaction and the
\* status query reports stage idle with empty transcript and response, and
\* this stays so over every step that starts no turn (the clock of the model
\* advances exactly when a turn starts): the turns in flight at the reset
\* finish, connections end, providers are switched.
ResetClearsUntilNextTurn ==
    [][/\ http'.req = "reset" => Cleared'
       /\ (Cleared /\ now' = now) => Cleared']_vars

\* A /chat call that had answered and logged when the reset ran has finished
\* after it, and nothing of it shows.
ChatFinishedAfterResetSeen ==
    \E h \in Handlers :
        /\ http.req = "chat"
        /\ chat[h].pc = "idle"
        /\ invoked.by = h
        /\ invoked.result.kind = "ret"
        /\ Cleared

\* C12: every reset, whatever the state it is applied to (so also the state
\* a reset has just left), leaves stage idle, transcript, response and
\* emotions empty, no latency and an empty log, returns {"status": "reset"},
\* and leaves the provider selection and both clients as they were.
ResetIdempotent ==
    [][http'.req = "reset" =>
          /\ pipeline_state'.stage = "idle"
          /\ pipeline_state'.transcript = <<>>
          /\ pipeline_state'.response = <<>>
          /\ pipeline_state'.emotions = <<>>
          /\ pipeline_state'.latency_ms = <<>>
          /\ interaction_history' = <<>>
          /\ http'.body = [status |-> "reset"]
          /\ LLM_PROVIDER' = LLM_PROVIDER
          /\ claude_client' = claude_client
          /\ openai_client' = openai_client]_vars

\* A reset after a turn answered by the provider switched to.
ResetAfterSwitchSeen ==
    /\ http.req = "reset"
    /\ env.LLM_PROVIDER = "claude"
    /\ LLM_PROVIDER = "openai"
    /\ invoked.routed = "openai"
    /\ pipeline_state.latency_ms = <<>>
    /\ interaction_history = <<>>

-----------------------------------------------------------------------------
(* Provider faults and missing clients *)

\* C13: no invocation of _call_llm raises into the handler that made it:
\* each returns a text, the provider's reply or one of the fixed sentences.
ProviderFailureBecomesPlaceholder ==
    invoked.by # "none" =>
        /\ invoked.result.kind = "ret"
        /\ invoked.result.val \in {ReplyOf(invoked.routed), TroubleThinking,
                                   NotConfiguredClaude, NotConfiguredOpenAI}

NotConfigured(provider) ==
    IF provider = "openai" THEN NotConfiguredOpenAI ELSE NotConfiguredClaude

\* C14: an invocation that finds no client for the selected provider returns
\* that provider's "not configured" sentence, and the turn goes on as an
\* answered one: stage speaking with the sentence as response and a latency,
\* one entry (the state as it then is) appended to the log, on a connection
\* the assistant turn appended and the sentence sent as the next frame, in
\* /chat the sentence returned as the response.
UnconfiguredTurnCompletes ==
    [][/\ (invoked' # invoked /\ ~invoked'.requested) =>
             LET text == NotConfigured(invoked'.routed) IN
             /\ invoked'.result = Ret(text)
             /\ pipeline_state'.stage = "speaking"
             /\ pipeline_state'.response = text
             /\ pipeline_state'.latency_ms # <<>>
             /\ interaction_history' =
                   Append(interaction_history, to_dict(pipeline_state'))
             /\ \A c \in Conns : invoked'.by = c =>
                   /\ conn'[c].pc = "send"
                   /\ conn'[c].response_text = text
                   /\ conn'[c].conversation =
                         Append(invoked'.turns, Turn("assistant", text))
             /\ \A h \in Handlers : invoked'.by = h =>
                   /\ chat'[h].pc = "sleep"
                   /\ chat'[h].response_text = text
       /\ \A c \in Conns : (conn[c].pc = "send" /\ conn'[c].pc = "sleep") =>
             conn'[c].outbox =
                 Append(conn[c].outbox, [type |-> "assistant_input",
                                         text |-> conn[c].response_text])
       /\ \A h \in Handlers : (chat[h].pc = "sleep" /\ chat'[h].pc = "idle") =>
             http'.body.response = chat[h].response_text]_vars

\* The "not configured" sentence of Claude has been sent on a connection.
UnconfiguredReplySentSeen ==
    \E c \in Conns :
        /\ invoked.by = c
        /\ ~invoked.requested
        /\ ~claude_client
        /\ conn[c].pc = "sleep"
        /\ Len(conn[c].outbox) = 1
        /\ conn[c].outbox[1].text = NotConfiguredClaude
        /\ Len(interaction_history) = 1

\* C15: a message with a non-empty transcript received on an open connection
\* leaves the handler about to send one frame with a non-empty reply; the
\* send appends exactly that frame, of type assistant_input, after the
\* frames sent before; a message with an empty transcript sends nothing.
EveryUtteranceAnswered ==
    [][\A c \in Conns :
          /\ \A frame \in WsFrames, outcome \in Outcomes, elapsed \in Elapsed :
                (frame.kind = "json" /\ WsReceive(c, frame, outcome, elapsed)) =>
                    LET transcript == ExtractTranscript(frame.payload) IN
                    /\ (transcript.kind = "ret" /\ transcript.val # <<>>) =>
                          /\ conn'[c].pc = "send"
                          /\ conn'[c].response_text # <<>>
                    /\ transcript = Ret(<<>>) =>
                          conn'[c].outbox = conn[c].outbox
          /\ (conn[c].pc = "send" /\ conn'[c].pc = "sleep") =>
                conn'[c].outbox =
                    Append(conn[c].outbox, [type |-> "assistant_input",
                                            text |-> conn[c].response_text])]_vars

-----------------------------------------------------------------------------
(* The response of /chat *)

\* C16: in a process started with claude or openai selected, the
\* llm_provider of a /chat response is the provider its reply came from.
ChatNamesItsProvider ==
    [][\A h \in Handlers :
          (/\ env.LLM_PROVIDER \in {"claude", "openai"}
           /\ chat[h].pc = "sleep"
           /\ chat'[h].pc = "idle") =>
              http'.body.llm_provider = chat[h].routed]_vars

\* C17: the latency_ms of a /chat response is the latency measured for its
\* own provider invocation, a number that is not negative.
ChatReportsItsLatency ==
    [][\A h \in Handlers :
          (chat[h].pc = "sleep" /\ chat'[h].pc = "idle") =>
              /\ http'.body.latency_ms = chat[h].latency
              /\ Len(http'.body.latency_ms) = 1
              /\ http'.body.latency_ms[1] >= 0]_vars

-----------------------------------------------------------------------------
(* Conversations across switches and connections *)

\* C18: a switch request changes no connection (its conversation least of
\* all), and the next invocation made for a connection carries the whole
\* conversation of the connection, followed by the new user turn, to the
\* provider selected at that moment.
SwitchKeepsConversation ==
    [][\A c \in Conns :
          /\ http'.req = "switch" => conn'[c] = conn[c]
          /\ (invoked' # invoked /\ invoked'.by = c) =>
                /\ SubSeq(invoked'.turns, 1, Len(invoked'.turns) - 1)
                      = conn[c].conversation
                /\ invoked'.selection = LLM_PROVIDER
                /\ invoked'.routed = Routed]_vars

\* The second utterance of a connection went to openai together with the
\* reply claude gave to the first.
ReplayedToNewProviderSeen ==
    \E c \in Conns :
        /\ invoked.by = c
        /\ invoked.nth = 2
        /\ invoked.routed = "openai"
        /\ invoked.requested
        /\ invoked.turns[2] = Turn("assistant", ReplyOf("claude"))

\* C19: the step that ends a connection, for a disconnect or an exception,
\* leaves pipeline_state with stage idle, empty transcript, response and
\* emotions and no latency, and nothing of the connection's conversation; a
\* connection accepted later starts with an empty conversation.
ChannelEndResets ==
    [][\A c \in Conns :
          /\ (conn[c].pc # "closed" /\ conn'[c].pc = "closed") =>
                /\ pipeline_state'.stage = "idle"
                /\ pipeline_state'.transcript = <<>>
                /\ pipeline_state'.response = <<>>
                /\ pipeline_state'.emotions = <<>>
                /\ pipeline_state'.latency_ms = <<>>
                /\ conn'[c].conversation = <<>>
                /\ conn'[c].turns = 0
          /\ (conn[c].pc = "closed" /\ conn'[c].pc # "closed") =>
                /\ conn'[c].conversation = <<>>
                /\ conn'[c].turns = 0]_vars

\* A connection that had answered an utterance has ended, and one accepted
\* after it is waiting with an empty conversation.
ReconnectedEmptySeen ==
    \E c \in Conns :
        /\ conn[c].pc = "await"
        /\ conn[c].conversation = <<>>
        /\ invoked.by = c
        /\ interaction_history # <<>>
        /\ pipeline_state.stage = "idle"
        /\ pipeline_state.transcript = <<>>
        /\ pipeline_state.timestamp > 0

\* C20: a turn that ends with an exception, on a connection or in /chat,
\* leaves stage idle.
FaultedTurnEndsIdle ==
    [][/\ \A c \in Conns :
             (conn[c].pc # "closed" /\ conn'[c].pc = "closed") =>
                 pipeline_state'.stage = "idle"
       /\ \A h \in Handlers :
             (/\ http'.req = "chat"
              /\ http'.by = h
              /\ chat[h].pc = "idle"
              /\ chat'[h].pc = "idle") =>
                 pipeline_state'.stage = "idle"]_vars

-----------------------------------------------------------------------------
(* The stages of a turn and the log *)

\* C21: a processed turn of a connection writes the stages transcribed,
\* thinking, speaking in this order in the step that answers the message;
\* the provider is called with stage thinking; the snapshot logged in that
\* step holds stage speaking and is logged before the frame is sent; the
\* send writes no stage; idle is written by the step after the send and the
\* sleep, and only after it is the next message of the connection received.
TurnStagesInOrder ==
    [][\A c \in Conns :
          /\ (invoked' # invoked /\ invoked'.by = c) =>
                /\ conn[c].pc = "await"
                /\ conn[c].turns > 0 =>
                      /\ conn[c].stages[Len(conn[c].stages)] = "idle"
                      /\ Len(conn[c].outbox) >= conn[c].turns
                /\ invoked'.stage = "thinking"
          /\ (conn[c].pc = "await" /\ conn'[c].pc = "send") =>
                /\ conn'[c].stages = <<"transcribed", "thinking", "speaking">>
                /\ pipeline_state'.stage = "speaking"
                /\ interaction_history' =
                      Append(interaction_history, to_dict(pipeline_state'))
                /\ conn'[c].outbox = conn[c].outbox
          /\ (conn[c].pc = "send" /\ conn'[c].pc = "sleep") =>
                /\ conn'[c].stages = conn[c].stages
                /\ pipeline_state' = pipeline_state
                /\ interaction_history' = interaction_history
                /\ Len(conn'[c].outbox) = Len(conn[c].outbox) + 1
          /\ (conn[c].pc = "sleep" /\ conn'[c].pc = "await") =>
                /\ conn'[c].stages =
                      <<"transcribed", "thinking", "speaking", "idle">>
                /\ pipeline_state'.stage = "idle"
                /\ conn'[c].outbox = conn[c].outbox]_vars

\* A connection has gone through a whole turn and waits for its next message.
TurnCompletedSeen ==
    \E c \in Conns :
        /\ conn[c].pc = "await"
        /\ conn[c].turns = 1
        /\ conn[c].stages = <<"transcribed", "thinking", "speaking", "idle">>
        /\ Len(conn[c].outbox) = 1
        /\ Len(interaction_history) = 1
        /\ interaction_history[1].stage = "speaking"
        /\ pipeline_state.stage = "idle"

\* C22: the step in which a /chat call is answered leaves pipeline_state as
\* the writes of a channel turn with the same utterance and emotions would
\* (transcribed with transcript, emotions and the time of the turn, then
\* thinking, then speaking with latency and response), and logs that state.
ChatUpdatesLikeChannelTurn ==
    [][\A h \in Handlers :
          (chat[h].pc = "idle" /\ chat'[h].pc = "sleep") =>
              /\ pipeline_state' =
                    Speaking(Thinking(Transcribed(pipeline_state,
                                                  invoked'.transcript,
                                                  invoked'.emotions, now')),
                             chat'[h].latency[1], chat'[h].response_text)
              /\ interaction_history' =
                    Append(interaction_history, to_dict(pipeline_state'))]_vars

-----------------------------------------------------------------------------
(* The provider selection *)

\* C23: LLM_PROVIDER changes only in a step that answers a switch request
\* with "switched", and then to the provider asked for; turns, /chat calls,
\* resets, disconnects, faults and rejected switches leave it as it is; and
\* every invocation is routed by the value LLM_PROVIDER has when it is made.
SelectionChangesOnlyBySwitch ==
    [][/\ LLM_PROVIDER' # LLM_PROVIDER =>
             /\ http'.req = "switch"
             /\ DOMAIN http'.body = {"status", "llm_provider"}
             /\ LLM_PROVIDER' = http'.by
       /\ invoked' # invoked =>
             /\ invoked'.selection = LLM_PROVIDER
             /\ invoked'.routed = (IF LLM_PROVIDER = "openai" THEN "openai"
                                   ELSE "claude")]_vars

\* In a process started with openai selected a /chat call went to claude
\* after a switch to it, and after a rejected switch claude is still selected.
SelectionKeptSeen ==
    /\ env.LLM_PROVIDER = "openai"
    /\ env.ANTHROPIC_API_KEY
    /\ switched = "claude"
    /\ LLM_PROVIDER = "claude"
    /\ invoked.by \in Handlers
    /\ invoked.selection = "claude"
    /\ http.req = "switch"
    /\ http.by = "gemini"

\* C24: the provider the status query reports is claude or openai, and is
\* the backend an invocation made now is routed to.
ReportedProviderIsSupported ==
    /\ get_status.llm_provider \in {"claude", "openai"}
    /\ get_status.llm_provider = Routed

-----------------------------------------------------------------------------
(* The InteractionRecord log *)

\* A turn completes in this step: a connection goes from its receive to its
\* send, or a /chat handler from its start to its sleep.
TurnCompletes ==
    \/ \E c \in Conns : conn[c].pc = "await" /\ conn'[c].pc = "send"
    \/ \E h \in Handlers : chat[h].pc = "idle" /\ chat'[h].pc = "sleep"

\* C25: a step that completes a turn appends one entry, the snapshot of the
\* state at that moment, at the end of the log; a reset empties the log;
\* every other step (disconnect, fault, switch, send, the delayed idle
\* write) leaves the log, and so every entry in it, exactly as it was.
LogAppendOnly ==
    [][/\ TurnCompletes =>
             interaction_history' =
                 Append(interaction_history, to_dict(pipeline_state'))
       /\ http'.req = "reset" => interaction_history' = <<>>
       /\ (~TurnCompletes /\ http'.req # "reset") =>
             interaction_history' = interaction_history]_vars

\* Two turns are logged, the connection of one has ended and the provider
\* has been switched since.
LogKeptSeen ==
    /\ Len(interaction_history) = 2
    /\ interaction_history[1].stage = "speaking"
    /\ interaction_history[2].stage = "speaking"
    /\ \E c \in Conns : conn[c].pc = "closed" /\ Len(conn[c].outbox) = 1
    /\ pipeline_state.stage = "idle"
    /\ http.req = "switch"

-----------------------------------------------------------------------------
(* The stage shared by concurrent turns, and empty utterances *)

\* A turn is between its transcribed write and its own write of idle.
TurnInProgress ==
    \/ \E c \in Conns : conn[c].pc \in {"send", "sleep"}
    \/ \E h \in Handlers : chat[h].pc = "sleep"

\* C27: no step other than a reset leaves the stage idle while a turn is in
\* progress: not the delayed idle write of another turn, not the end of a
\* connection.
IdleOnlyWhenNoTurn ==
    [][(pipeline_state'.stage = "idle" /\ http'.req # "reset") =>
          ~TurnInProgress']_vars

\* C28: no invocation of the provider is made for an utterance that is empty
\* or all whitespace, by a connection or by /chat, and no entry of the log
\* holds such a transcript.
EmptyUtteranceNeverSent ==
    /\ invoked.by # "none" => Trimmed(invoked.transcript) # <<>>
    /\ \A i \in 1..Len(interaction_history) :
          Trimmed(interaction_history[i].transcript) # <<>>

-----------------------------------------------------------------------------
(* The provider toggle: properties of SpecToggle *)

\* C29: when the reply to the frontend's switch request has been handled, the
\* provider the frontend shows (st.session_state.active_provider, the value
\* render_llm_toggle returns) is the provider the server has selected; after a
\* rejected switch it is still the provider shown before.
\* Violated: the server answers a rejected switch with a dict under status
\* 200, and the frontend takes every status 200 as a performed switch.
ToggleShowsServerProvider ==
    [][ToggleResponse =>
          /\ ui'.active_provider = LLM_PROVIDER'
          /\ ("error" \in DOMAIN http.body =>
                 ui'.active_provider = ui.active_provider)]_vars

-----------------------------------------------------------------------------
(* The live-voice widget: properties of SpecVoice *)

Live == {S.LISTENING, S.THINKING, S.SPEAKING}

SessionOf(v) == <<v.state, v.ws, v.micStream, v.audioQueue>>

StoppedSocketEvent(s) ==
    \/ \E expired \in BOOLEAN : SocketClose(s, expired)
    \/ SocketError(s)
    \/ \E type \in HumeMessages : SocketMessage(s, type)

\* C30: an event (close, error, message) of a socket that a click on the
\* button has stopped leaves the widget's state, its socket, its microphone
\* stream and its audio queue as they were; and whenever the widget is
\* listening, thinking or speaking, its socket exists and is open.
\* Violated: the handlers act on the globals, not on the socket they were
\* attached to, so the close event of a stopped socket arriving after the
\* next start runs cleanup() on the new session.
StoppedSocketLeavesSession ==
    /\ [][\A s \in voice.stopped :
             StoppedSocketEvent(s) => SessionOf(voice') = SessionOf(voice)]_vars
    /\ [](voice.state \in Live =>
             voice.ws # 0 /\ voice.socks[voice.ws] = "open")

=============================================================================
